---- MODULE Spec2Model ----
(***************************************************************************)
(* Model of the STM32F4xx true random number generator driver              *)
(* (chips/stm32f4xx/src/trng.rs): the three RNG registers, the driver's    *)
(* get / cancel / set_client operations and its interrupt handler, one     *)
(* action per register access, with the RNG hardware and the registered    *)
(* client as the environment.  The status register is modelled by the      *)
(* three flags the driver tests or clears (SEIS, CEIS, DRDY); the value    *)
(* held by the data register is not modelled, only the effect of reading   *)
(* it on DRDY.                                                             *)
(***************************************************************************)
EXTENDS Naturals, Sequences, FiniteSets

\* ---------------------------------------------------------------- bounds
\* Largest number of pulls a client makes on the word sequence in one callback.
MaxPulls == 2
\* Number of distinct clients that can be passed to set_client.
NumClients == 2
\* Largest number of backend reconfigurations during one get_frequency call.
MaxReconf == 2
\* Number of seed and clock errors the hardware raises where errors are finite.
MaxErrors == 2

Clients == 1 .. NumClients
\* OptionalCell::empty()
NoClient == 0

VARIABLES
    cr,        \* Control register: CED, IE, RNGEN
    sr,        \* Status register: SEIS, CEIS, DRDY
    client,    \* Trng.client: NoClient or the registered client
    pending,   \* the RNG interrupt is pending at the interrupt controller
    pc,        \* position of the driver code being executed
    op,        \* the operation being executed ("none" when idle)
    lastCtl,   \* the last completed operation that writes the control register
    lastSet,   \* the client most recently passed to set_client
    prevSet,   \* the client that was registered when set_client was last called
    entry,     \* registers at the entry of the running operation
    hw,        \* status bits the hardware changed during the running operation
    branch,    \* branch taken by the running handle_interrupt
    called,    \* clients invoked by the running handle_interrupt, in order
    cfg,       \* calls of clock.configure() by the running handle_interrupt
    pulls,     \* calls of TrngIter::next by the client in this callback
    ready,     \* those of the pulls at which DRDY was set
    words,     \* number of words the client received in this callback
    lastNone,  \* the client's last pull returned None
    res,       \* what the client returned: "none" (not yet), "More", "Done"
    rv,        \* what the running operation returns: "none" (not yet), "Ok"
    rcc,       \* the clock-control backend (Rcc) the clock handles refer to
    handles,   \* the PeripheralClock handles in use
    gate,      \* the last enable / disable / is_enabled / configure call
    gf,        \* the running get_frequency call
    errs       \* seed and clock errors raised so far, where they are counted

regs == <<cr, sr>>
hist == <<lastCtl, lastSet, prevSet>>
cb == <<called, cfg, pulls, ready, words, lastNone, res>>
run == <<op, entry, branch, rv>>
clk == <<rcc, handles, gate, gf>>
trng == <<cr, sr, client, pending, pc, op, lastCtl, lastSet, prevSet,
          entry, hw,
          branch, called, cfg, pulls, ready, words, lastNone, res, rv>>
vars == <<cr, sr, client, pending, pc, op, lastCtl, lastSet, prevSet,
          entry, hw,
          branch, called, cfg, pulls, ready, words, lastNone, res, rv,
          rcc, handles, gate, gf, errs>>

\* ------------------------------------------------------------- registers
Bit == {0, 1}
Control == [CED : Bit, IE : Bit, RNGEN : Bit]
Status == [SEIS : Bit, CEIS : Bit, DRDY : Bit]
StatusBits == {"SEIS", "CEIS", "DRDY"}

\* registers.<reg>.is_set(<field>)
IsSet(reg, f) == reg[f] = 1
\* registers.<reg>.modify(<field>::SET)
ModifySet(reg, f) == [reg EXCEPT ![f] = 1]
\* registers.<reg>.modify(<field>::CLEAR)
ModifyClear(reg, f) == [reg EXCEPT ![f] = 0]
\* Mutant: a read of the data register that leaves DRDY set.
DataRead_keepsReady(s) == s

\* registers.data.read(RNDATA): reading the data register clears DRDY
DataRead(s) == [s EXCEPT !.DRDY = 0]

\* Mutant: next() with the DRDY test inverted.
TrngIterNext_inverted(s) ==
    IF ~IsSet(s, "DRDY")
    THEN [some |-> TRUE, sr |-> DataRead(s)]
    ELSE [some |-> FALSE, sr |-> s]

\* TrngIter::next
TrngIterNext(s) ==
    IF IsSet(s, "DRDY")
    THEN [some |-> TRUE, sr |-> DataRead(s)]
    ELSE [some |-> FALSE, sr |-> s]

NoEntry == [cr |-> [CED |-> 0, IE |-> 0, RNGEN |-> 0],
            sr |-> [SEIS |-> 0, CEIS |-> 0, DRDY |-> 0]]

\* ---------------------------------------------------- peripheral clocks
\* Peripherals clocked by HCLK1, HCLK2, HCLK3, PCLK1, PCLK2
HCLK1 == {"DMA1", "DMA2", "GPIOH", "GPIOG", "GPIOF", "GPIOE", "GPIOD",
          "GPIOC", "GPIOB", "GPIOA"}
HCLK2 == {"RNG", "OTGFS"}
HCLK3 == {"FMC"}
PCLK1 == {"TIM2", "USART2", "USART3", "SPI3", "I2C1", "CAN1", "DAC"}
PCLK2 == {"USART1", "ADC1", "SYSCFG"}

\* Bus + clock name of a peripheral: the identity of a PeripheralClock
PeripheralClockType ==
    [bus : {"AHB1"}, p : HCLK1] \cup [bus : {"AHB2"}, p : HCLK2]
        \cup [bus : {"AHB3"}, p : HCLK3] \cup [bus : {"APB1"}, p : PCLK1]
        \cup [bus : {"APB2"}, p : PCLK2]
        \cup {[bus |-> "RTC", p |-> "RTC"], [bus |-> "PWR", p |-> "PWR"]}

\* The handle PeripheralClocks::new builds for the TRNG.
TrngClock == [bus |-> "AHB2", p |-> "RNG"]

\* The clock lines of the backend, one per <line> of its
\* is_enabled_<line>_clock / enable_<line>_clock / disable_<line>_clock.
RccLines ==
    {"dma1", "dma2", "gpioh", "gpiog", "gpiof", "gpioe", "gpiod", "gpioc",
     "gpiob", "gpioa", "rng", "otgfs", "fmc", "tim2", "usart2", "usart3",
     "i2c1", "spi3", "can1", "dac", "usart1", "adc1", "syscfg", "rtc", "pwr"}

\* rcc::APBPrescaler and its conversion to usize
APBPrescaler == {"DivideBy1", "DivideBy2", "DivideBy4", "DivideBy8", "DivideBy16"}
PrescalerValue(p) ==
    CASE p = "DivideBy1" -> 1
      [] p = "DivideBy2" -> 2
      [] p = "DivideBy4" -> 4
      [] p = "DivideBy8" -> 8
      [] p = "DivideBy16" -> 16

\* System clock frequencies (Hz) the backend reports; 15 exercises the
\* truncation of the integer divisions.
SysFreqs == {15, 16000000, 168000000}

\* The backend after reset: no line enabled, no prescaling.
RccReset ==
    [en |-> {}, rtcsrc |-> "none", rngcalls |-> 0,
     sys |-> 16000000, apb1 |-> "DivideBy1", apb2 |-> "DivideBy1",
     timpre |-> FALSE]

\* Rcc::is_enabled_<line>_clock
RccIsEnabled(r, line) == line \in r.en
\* Rcc::enable_<line>_clock
RccEnable(r, line) == [r EXCEPT !.en = @ \cup {line}]
\* Rcc::enable_rtc_clock(source)
RccEnableRtc(r, source) == [r EXCEPT !.en = @ \cup {"rtc"}, !.rtcsrc = source]
\* Rcc::disable_<line>_clock
RccDisable(r, line) == [r EXCEPT !.en = @ \ {line}]
\* Rcc::configure_rng_clock; rngcalls counts its calls during the most
\* recent operation on a handle.
RccConfigureRng(r) == [r EXCEPT !.rngcalls = @ + 1]
\* The backend state apart from that count.
RccState(r) == [r EXCEPT !.rngcalls = 0]

\* The backend call each arm of PeripheralClock::is_enabled makes.
IsEnabledLine(c) ==
    CASE c.bus = "AHB1" ->
         (CASE c.p = "DMA1" -> "dma1"
            [] c.p = "DMA2" -> "dma2"
            [] c.p = "GPIOH" -> "gpioh"
            [] c.p = "GPIOG" -> "gpiog"
            [] c.p = "GPIOF" -> "gpiof"
            [] c.p = "GPIOE" -> "gpioe"
            [] c.p = "GPIOD" -> "gpiod"
            [] c.p = "GPIOC" -> "gpioc"
            [] c.p = "GPIOB" -> "gpiob"
            [] c.p = "GPIOA" -> "gpioa")
      [] c.bus = "AHB2" ->
         (CASE c.p = "RNG" -> "rng"
            [] c.p = "OTGFS" -> "otgfs")
      [] c.bus = "AHB3" ->
         (CASE c.p = "FMC" -> "fmc")
      [] c.bus = "APB1" ->
         (CASE c.p = "TIM2" -> "tim2"
            [] c.p = "USART2" -> "usart2"
            [] c.p = "USART3" -> "usart3"
            [] c.p = "I2C1" -> "i2c1"
            [] c.p = "SPI3" -> "spi3"
            [] c.p = "CAN1" -> "can1"
            [] c.p = "DAC" -> "dac")
      [] c.bus = "APB2" ->
         (CASE c.p = "USART1" -> "usart1"
            [] c.p = "ADC1" -> "adc1"
            [] c.p = "SYSCFG" -> "syscfg")
      [] c.bus = "RTC" -> "rtc"
      [] c.bus = "PWR" -> "pwr"

\* Mutant: the I2C1 and SPI3 arms of enable swapped.
EnableLine_swapped(c) ==
    CASE c.bus = "AHB1" ->
         (CASE c.p = "DMA1" -> "dma1"
            [] c.p = "DMA2" -> "dma2"
            [] c.p = "GPIOH" -> "gpioh"
            [] c.p = "GPIOG" -> "gpiog"
            [] c.p = "GPIOF" -> "gpiof"
            [] c.p = "GPIOE" -> "gpioe"
            [] c.p = "GPIOD" -> "gpiod"
            [] c.p = "GPIOC" -> "gpioc"
            [] c.p = "GPIOB" -> "gpiob"
            [] c.p = "GPIOA" -> "gpioa")
      [] c.bus = "AHB2" ->
         (CASE c.p = "RNG" -> "rng"
            [] c.p = "OTGFS" -> "otgfs")
      [] c.bus = "AHB3" ->
         (CASE c.p = "FMC" -> "fmc")
      [] c.bus = "APB1" ->
         (CASE c.p = "TIM2" -> "tim2"
            [] c.p = "USART2" -> "usart2"
            [] c.p = "USART3" -> "usart3"
            [] c.p = "I2C1" -> "spi3"
            [] c.p = "SPI3" -> "i2c1"
            [] c.p = "CAN1" -> "can1"
            [] c.p = "DAC" -> "dac")
      [] c.bus = "APB2" ->
         (CASE c.p = "USART1" -> "usart1"
            [] c.p = "ADC1" -> "adc1"
            [] c.p = "SYSCFG" -> "syscfg")
      [] c.bus = "RTC" -> "rtc"
      [] c.bus = "PWR" -> "pwr"

\* The backend call each arm of PeripheralClock::enable makes.
EnableLine(c) ==
    CASE c.bus = "AHB1" ->
         (CASE c.p = "DMA1" -> "dma1"
            [] c.p = "DMA2" -> "dma2"
            [] c.p = "GPIOH" -> "gpioh"
            [] c.p = "GPIOG" -> "gpiog"
            [] c.p = "GPIOF" -> "gpiof"
            [] c.p = "GPIOE" -> "gpioe"
            [] c.p = "GPIOD" -> "gpiod"
            [] c.p = "GPIOC" -> "gpioc"
            [] c.p = "GPIOB" -> "gpiob"
            [] c.p = "GPIOA" -> "gpioa")
      [] c.bus = "AHB2" ->
         (CASE c.p = "RNG" -> "rng"
            [] c.p = "OTGFS" -> "otgfs")
      [] c.bus = "AHB3" ->
         (CASE c.p = "FMC" -> "fmc")
      [] c.bus = "APB1" ->
         (CASE c.p = "TIM2" -> "tim2"
            [] c.p = "USART2" -> "usart2"
            [] c.p = "USART3" -> "usart3"
            [] c.p = "I2C1" -> "i2c1"
            [] c.p = "SPI3" -> "spi3"
            [] c.p = "CAN1" -> "can1"
            [] c.p = "DAC" -> "dac")
      [] c.bus = "APB2" ->
         (CASE c.p = "USART1" -> "usart1"
            [] c.p = "ADC1" -> "adc1"
            [] c.p = "SYSCFG" -> "syscfg")
      [] c.bus = "RTC" -> "rtc"
      [] c.bus = "PWR" -> "pwr"

\* The backend call each arm of PeripheralClock::disable makes.
DisableLine(c) ==
    CASE c.bus = "AHB1" ->
         (CASE c.p = "DMA1" -> "dma1"
            [] c.p = "DMA2" -> "dma2"
            [] c.p = "GPIOH" -> "gpioh"
            [] c.p = "GPIOG" -> "gpiog"
            [] c.p = "GPIOF" -> "gpiof"
            [] c.p = "GPIOE" -> "gpioe"
            [] c.p = "GPIOD" -> "gpiod"
            [] c.p = "GPIOC" -> "gpioc"
            [] c.p = "GPIOB" -> "gpiob"
            [] c.p = "GPIOA" -> "gpioa")
      [] c.bus = "AHB2" ->
         (CASE c.p = "RNG" -> "rng"
            [] c.p = "OTGFS" -> "otgfs")
      [] c.bus = "AHB3" ->
         (CASE c.p = "FMC" -> "fmc")
      [] c.bus = "APB1" ->
         (CASE c.p = "TIM2" -> "tim2"
            [] c.p = "USART2" -> "usart2"
            [] c.p = "USART3" -> "usart3"
            [] c.p = "I2C1" -> "i2c1"
            [] c.p = "SPI3" -> "spi3"
            [] c.p = "CAN1" -> "can1"
            [] c.p = "DAC" -> "dac")
      [] c.bus = "APB2" ->
         (CASE c.p = "USART1" -> "usart1"
            [] c.p = "ADC1" -> "adc1"
            [] c.p = "SYSCFG" -> "syscfg")
      [] c.bus = "RTC" -> "rtc"
      [] c.bus = "PWR" -> "pwr"

\* PeripheralClock::is_enabled
is_enabled(c, r) == RccIsEnabled(r, IsEnabledLine(c))

\* PeripheralClock::enable
enable(c, r) ==
    IF c.bus = "RTC"
    THEN RccEnableRtc(r, "LSI")
    ELSE RccEnable(r, EnableLine(c))

\* PeripheralClock::disable
disable(c, r) == RccDisable(r, DisableLine(c))

\* Mutant: configure that reconfigures the RNG clock for every AHB2 handle.
configure_anyAhb2(c, r) ==
    IF c.bus = "AHB2" THEN RccConfigureRng(r) ELSE r

\* PeripheralClock::configure
configure(c, r) ==
    IF c = [bus |-> "AHB2", p |-> "RNG"] THEN RccConfigureRng(r) ELSE r

\* No gate call made yet.
GateIdle == [op |-> "none", id |-> TrngClock, ret |-> FALSE, same |-> TRUE]

\* Mutant: tim_freq without the doubling of the divided frequency.
tim_freq_noDouble(timpre, hclk_freq, prescaler) ==
    IF ~timpre
    THEN IF prescaler \in {"DivideBy1", "DivideBy2"}
         THEN hclk_freq
         ELSE hclk_freq \div PrescalerValue(prescaler)
    ELSE IF prescaler \in {"DivideBy1", "DivideBy2", "DivideBy4"}
         THEN hclk_freq
         ELSE (hclk_freq \div PrescalerValue(prescaler)) * 4

\* Mutant: tim_freq with the TIMPRE test inverted.
tim_freq_flagInverted(timpre, hclk_freq, prescaler) ==
    IF timpre
    THEN IF prescaler \in {"DivideBy1", "DivideBy2"}
         THEN hclk_freq
         ELSE (hclk_freq \div PrescalerValue(prescaler)) * 2
    ELSE IF prescaler \in {"DivideBy1", "DivideBy2", "DivideBy4"}
         THEN hclk_freq
         ELSE (hclk_freq \div PrescalerValue(prescaler)) * 4

\* tim_freq, given what rcc.is_enabled_tim_pre() returned
tim_freq(timpre, hclk_freq, prescaler) ==
    IF ~timpre
    THEN IF prescaler \in {"DivideBy1", "DivideBy2"}
         THEN hclk_freq
         ELSE (hclk_freq \div PrescalerValue(prescaler)) * 2
    ELSE IF prescaler \in {"DivideBy1", "DivideBy2", "DivideBy4"}
         THEN hclk_freq
         ELSE (hclk_freq \div PrescalerValue(prescaler)) * 4

\* The arms of the match in get_frequency: where the call goes next, the
\* prescaler it read and the value it returns (when it returns here).
AhbArm(hclk_freq) ==
    [pc |-> "done", presc |-> "DivideBy1", result |-> hclk_freq]
Apb1Arm(c, hclk_freq, r) ==
    IF c.p = "TIM2"
    THEN [pc |-> "tim", presc |-> r.apb1, result |-> 0]
    ELSE [pc |-> "done", presc |-> r.apb1,
          result |-> hclk_freq \div PrescalerValue(r.apb1)]
Apb2Arm(hclk_freq, r) ==
    [pc |-> "done", presc |-> r.apb2,
     result |-> hclk_freq \div PrescalerValue(r.apb2)]
TodoArm ==
    [pc |-> "panic", presc |-> "DivideBy1", result |-> 0]

\* Mutant: the APB2 arm reads the APB1 prescaler.
MatchClock_apb2ReadsApb1(c, hclk_freq, r) ==
    CASE c.bus \in {"AHB1", "AHB2", "AHB3"} -> AhbArm(hclk_freq)
      [] c.bus = "APB1" -> Apb1Arm(c, hclk_freq, r)
      [] c.bus = "APB2" ->
            [pc |-> "done", presc |-> r.apb1,
             result |-> hclk_freq \div PrescalerValue(r.apb1)]
      [] c.bus \in {"RTC", "PWR"} -> TodoArm

\* Mutant: AHB3 is left out of the undivided arm and handled as APB2.
MatchClock_ahb3Divided(c, hclk_freq, r) ==
    CASE c.bus \in {"AHB1", "AHB2"} -> AhbArm(hclk_freq)
      [] c.bus = "APB1" -> Apb1Arm(c, hclk_freq, r)
      [] c.bus \in {"APB2", "AHB3"} -> Apb2Arm(hclk_freq, r)
      [] c.bus \in {"RTC", "PWR"} -> TodoArm

\* Mutant: PWR returns the system frequency instead of failing.
MatchClock_pwrReturns(c, hclk_freq, r) ==
    CASE c.bus \in {"AHB1", "AHB2", "AHB3", "PWR"} -> AhbArm(hclk_freq)
      [] c.bus = "APB1" -> Apb1Arm(c, hclk_freq, r)
      [] c.bus = "APB2" -> Apb2Arm(hclk_freq, r)
      [] c.bus = "RTC" -> TodoArm

\* match self.clock { ... } in get_frequency
MatchClock(c, hclk_freq, r) ==
    CASE c.bus \in {"AHB1", "AHB2", "AHB3"} -> AhbArm(hclk_freq)
      [] c.bus = "APB1" -> Apb1Arm(c, hclk_freq, r)
      [] c.bus = "APB2" -> Apb2Arm(hclk_freq, r)
      [] c.bus \in {"RTC", "PWR"} -> TodoArm

\* PeripheralClock::get_frequency with every backend read made in the one
\* backend state r (defined for the identities that return a value).
get_frequency(c, r) ==
    LET m == MatchClock(c, r.sys, r) IN
        IF m.pc = "tim" THEN tim_freq(r.timpre, r.sys, m.presc) ELSE m.result

\* What get_frequency would return in backend state r, as a set.
RuleAt(c, r) == IF c.bus \in {"RTC", "PWR"} THEN {} ELSE {get_frequency(c, r)}

\* No get_frequency call running.
GfIdle ==
    [pc |-> "idle", id |-> TrngClock, hclk |-> 0, presc |-> "DivideBy1",
     result |-> 0, nre |-> 0, ok |-> {}]

\* ------------------------------------------------------------------ Init
\* Trng::new: no client; the registers at their reset values, the
\* clock-error-detection bit as the board left it.
TrngInit ==
    /\ cr \in {c \in Control : c.IE = 0 /\ c.RNGEN = 0}
    /\ sr = NoEntry.sr
    /\ client = NoClient
    /\ pending = FALSE
    /\ pc = "idle"
    /\ op = "none"
    /\ lastCtl = "none"
    /\ lastSet = NoClient
    /\ prevSet = NoClient
    /\ entry = NoEntry
    /\ hw = {}
    /\ branch = "none"
    /\ called = <<>>
    /\ cfg = 0
    /\ pulls = 0
    /\ ready = 0
    /\ words = 0
    /\ lastNone = FALSE
    /\ res = "none"
    /\ rv = "none"

\* The backend after reset; the driver's clock handle is the one in use.
Init ==
    /\ TrngInit
    /\ rcc = RccReset
    /\ handles = {TrngClock}
    /\ gate = GateIdle
    /\ gf = GfIdle
    /\ errs = 0

\* -------------------------------------------------------------- hardware
\* The hardware acts at any point except the instant of a return.
HwMay == pc # "ret"
\* Status bits the hardware changed while an operation is running.
HwNote(bits) == hw' = IF pc = "idle" THEN hw ELSE hw \cup bits
Changed(s, t) == {b \in StatusBits : s[b] # t[b]}

HwSet(t) ==
    /\ HwMay
    /\ t # sr
    /\ sr' = t
    /\ HwNote(Changed(sr, t))
    /\ UNCHANGED <<cr, client, pending, pc, hist, cb, run>>
    /\ UNCHANGED <<clk, errs>>

\* Seed error detected: SEIS is raised.
HwSeedError ==
    HwSet([sr EXCEPT !.SEIS = 1])

\* Clock error detected: CEIS is raised.
HwClockError ==
    HwSet([sr EXCEPT !.CEIS = 1])

\* A ready pulse: the enabled generator has a new word in the data register.
HwDataReady ==
    /\ IsSet(cr, "RNGEN")
    /\ HwSet([sr EXCEPT !.DRDY = 1])

\* The interrupt line: raised while IE is set and a flag is up.
HwIrq ==
    /\ HwMay
    /\ ~pending
    /\ IsSet(cr, "IE")
    /\ (IsSet(sr, "DRDY") \/ IsSet(sr, "SEIS") \/ IsSet(sr, "CEIS"))
    /\ pending' = TRUE
    /\ UNCHANGED <<regs, client, pc, hist, hw, cb, run>>
    /\ UNCHANGED <<clk, errs>>

\* ------------------------------------------------------------ operations
Begin(o) ==
    /\ pc = "idle"
    /\ op' = o
    /\ entry' = [cr |-> cr, sr |-> sr]

\* Mutant: get that writes the whole control register instead of modifying it.
Get_write ==
    /\ Begin("get")
    /\ cr' = [CED |-> 0, IE |-> 1, RNGEN |-> 0]
    /\ pc' = "get_rngen"
    /\ UNCHANGED <<sr, client, pending, hist, hw, cb, branch, rv>>
    /\ UNCHANGED <<clk, errs>>

\* Entropy32::get, first write: IE::SET
Get ==
    /\ Begin("get")
    /\ cr' = ModifySet(cr, "IE")
    /\ pc' = "get_rngen"
    /\ UNCHANGED <<sr, client, pending, hist, hw, cb, branch, rv>>
    /\ UNCHANGED <<clk, errs>>

\* Entropy32::get, second write: RNGEN::SET, then Ok(())
GetRngenSet ==
    /\ pc = "get_rngen"
    /\ cr' = ModifySet(cr, "RNGEN")
    /\ rv' = "Ok"
    /\ pc' = "ret"
    /\ UNCHANGED <<sr, client, pending, hist, hw, cb, op, entry, branch>>
    /\ UNCHANGED <<clk, errs>>

\* Mutant: cancel that clears IE first.
Cancel_ieFirst ==
    /\ Begin("cancel")
    /\ cr' = ModifyClear(cr, "IE")
    /\ pc' = "cancel_ie"
    /\ UNCHANGED <<sr, client, pending, hist, hw, cb, branch, rv>>
    /\ UNCHANGED <<clk, errs>>

\* Entropy32::cancel, first write: RNGEN::CLEAR
Cancel ==
    /\ Begin("cancel")
    /\ cr' = ModifyClear(cr, "RNGEN")
    /\ pc' = "cancel_ie"
    /\ UNCHANGED <<sr, client, pending, hist, hw, cb, branch, rv>>
    /\ UNCHANGED <<clk, errs>>

\* Entropy32::cancel, second write: IE::CLEAR, then Ok(())
CancelIeClear ==
    /\ pc = "cancel_ie"
    /\ cr' = ModifyClear(cr, "IE")
    /\ rv' = "Ok"
    /\ pc' = "ret"
    /\ UNCHANGED <<sr, client, pending, hist, hw, cb, op, entry, branch>>
    /\ UNCHANGED <<clk, errs>>

\* Mutant: set_client that keeps a client already registered.
SetClient_keepFirst(c) ==
    /\ Begin("set_client")
    /\ client' = IF client = NoClient THEN c ELSE client
    /\ lastSet' = c
    /\ prevSet' = client
    /\ pc' = "ret"
    /\ UNCHANGED <<regs, pending, lastCtl, hw, cb, branch, rv>>
    /\ UNCHANGED <<clk, errs>>

\* Entropy32::set_client: OptionalCell::set replaces the value
SetClient(c) ==
    /\ Begin("set_client")
    /\ client' = c
    /\ lastSet' = c
    /\ prevSet' = client
    /\ pc' = "ret"
    /\ UNCHANGED <<regs, pending, lastCtl, hw, cb, branch, rv>>
    /\ UNCHANGED <<clk, errs>>

\* ---------------------------------------------------- interrupt handler
\* Trng::handle_interrupt, entry: the pending interrupt is taken and the
\* handler tests SEIS.
HandleInterrupt ==
    /\ Begin("handle_interrupt")
    /\ pending
    /\ pending' = FALSE
    /\ IF IsSet(sr, "SEIS")
       THEN branch' = "seed" /\ pc' = "hi_seis_clear"
       ELSE branch' = "none" /\ pc' = "hi_ceis_test"
    /\ UNCHANGED <<regs, client, hist, hw, cb, rv>>
    /\ UNCHANGED <<clk, errs>>

\* sr.modify(SEIS::CLEAR)
HiSeisClear ==
    /\ pc = "hi_seis_clear"
    /\ sr' = ModifyClear(sr, "SEIS")
    /\ pc' = "hi_data_read"
    /\ UNCHANGED <<cr, client, pending, hist, hw, cb, run>>
    /\ UNCHANGED <<clk, errs>>

\* data.read(RNDATA), the value thrown away
HiDataRead ==
    /\ pc = "hi_data_read"
    /\ sr' = DataRead(sr)
    /\ pc' = "hi_rngen_clear"
    /\ UNCHANGED <<cr, client, pending, hist, hw, cb, run>>
    /\ UNCHANGED <<clk, errs>>

\* Mutant: the restart leaves out the clearing of RNGEN.
HiRngenClear_skip ==
    /\ pc = "hi_rngen_clear"
    /\ pc' = "hi_rngen_set"
    /\ UNCHANGED <<regs, client, pending, hist, hw, cb, run>>
    /\ UNCHANGED <<clk, errs>>

\* cr.modify(RNGEN::CLEAR)
HiRngenClear ==
    /\ pc = "hi_rngen_clear"
    /\ cr' = ModifyClear(cr, "RNGEN")
    /\ pc' = "hi_rngen_set"
    /\ UNCHANGED <<sr, client, pending, hist, hw, cb, run>>
    /\ UNCHANGED <<clk, errs>>

\* Mutant: the seed-error branch falls through to the CEIS test.
HiRngenSet_fallThrough ==
    /\ pc = "hi_rngen_set"
    /\ cr' = ModifySet(cr, "RNGEN")
    /\ pc' = "hi_ceis_test"
    /\ UNCHANGED <<sr, client, pending, hist, hw, cb, run>>
    /\ UNCHANGED <<clk, errs>>

\* cr.modify(RNGEN::SET); return
HiRngenSet ==
    /\ pc = "hi_rngen_set"
    /\ cr' = ModifySet(cr, "RNGEN")
    /\ pc' = "ret"
    /\ UNCHANGED <<sr, client, pending, hist, hw, cb, run>>
    /\ UNCHANGED <<clk, errs>>

\* else if sr.is_set(CEIS)
HiCeisTest ==
    /\ pc = "hi_ceis_test"
    /\ IF IsSet(sr, "CEIS")
       THEN branch' = "clock" /\ pc' = "hi_configure"
       ELSE branch' = "deliver" /\ pc' = "hi_map"
    /\ UNCHANGED <<regs, client, pending, hist, hw, cb, op, entry, rv>>
    /\ UNCHANGED <<clk, errs>>

\* Mutant: the clock-error branch leaves out clock.configure().
HiConfigure_skip ==
    /\ pc = "hi_configure"
    /\ pc' = "hi_ceis_clear"
    /\ UNCHANGED <<regs, client, pending, hist, hw, run, cb>>
    /\ UNCHANGED <<clk, errs>>

\* clock.configure()
HiConfigure ==
    /\ pc = "hi_configure"
    /\ cfg' = cfg + 1
    /\ pc' = "hi_ceis_clear"
    /\ UNCHANGED <<regs, client, pending, hist, hw, run,
                   called, pulls, ready, words, lastNone, res>>
    /\ UNCHANGED <<clk, errs>>

\* Mutant: the clock-error branch returns without clearing CEIS.
HiCeisClear_skip ==
    /\ pc = "hi_ceis_clear"
    /\ pc' = "ret"
    /\ UNCHANGED <<regs, client, pending, hist, hw, cb, run>>
    /\ UNCHANGED <<clk, errs>>

\* sr.modify(CEIS::CLEAR); return
HiCeisClear ==
    /\ pc = "hi_ceis_clear"
    /\ sr' = ModifyClear(sr, "CEIS")
    /\ pc' = "ret"
    /\ UNCHANGED <<cr, client, pending, hist, hw, cb, run>>
    /\ UNCHANGED <<clk, errs>>

\* Mutant: with no client registered the handler disables the driver as if
\* a client had returned Done.
HiMap_emptyIsDone ==
    /\ pc = "hi_map"
    /\ IF client = NoClient
       THEN called' = called /\ pc' = "hi_ie_clear"
       ELSE called' = Append(called, client) /\ pc' = "client"
    /\ UNCHANGED <<regs, client, pending, hist, hw, run,
                   cfg, pulls, ready, words, lastNone, res>>
    /\ UNCHANGED <<clk, errs>>

\* client.map(|client| client.entropy_available(&mut TrngIter(self), Ok(())))
HiMap ==
    /\ pc = "hi_map"
    /\ IF client = NoClient
       THEN called' = called /\ pc' = "ret"
       ELSE called' = Append(called, client) /\ pc' = "client"
    /\ UNCHANGED <<regs, client, pending, hist, hw, run,
                   cfg, pulls, ready, words, lastNone, res>>
    /\ UNCHANGED <<clk, errs>>

\* The client pulls on the sequence: TrngIter::next
ClientPull ==
    /\ pc = "client"
    /\ pulls < MaxPulls
    /\ LET n == TrngIterNext(sr) IN
        /\ sr' = n.sr
        /\ words' = IF n.some THEN words + 1 ELSE words
        /\ lastNone' = ~n.some
    /\ pulls' = pulls + 1
    /\ ready' = ready + sr.DRDY
    /\ UNCHANGED <<cr, client, pending, pc, hist, hw, run,
                   called, cfg, res>>
    /\ UNCHANGED <<clk, errs>>

\* The client returns Continue::More or Continue::Done
ClientReturn(r) ==
    /\ pc = "client"
    /\ res' = r
    /\ pc' = IF r = "Done" THEN "hi_ie_clear" ELSE "ret"
    /\ UNCHANGED <<regs, client, pending, hist, hw, run,
                   called, cfg, pulls, ready, words, lastNone>>
    /\ UNCHANGED <<clk, errs>>

\* if let Continue::Done = res: cr.modify(IE::CLEAR)
HiIeClear ==
    /\ pc = "hi_ie_clear"
    /\ cr' = ModifyClear(cr, "IE")
    /\ pc' = "hi_done_rngen_clear"
    /\ UNCHANGED <<sr, client, pending, hist, hw, cb, run>>
    /\ UNCHANGED <<clk, errs>>

\* Mutant: on Done only IE is cleared.
HiDoneRngenClear_skip ==
    /\ pc = "hi_done_rngen_clear"
    /\ pc' = "ret"
    /\ UNCHANGED <<regs, client, pending, hist, hw, cb, run>>
    /\ UNCHANGED <<clk, errs>>

\* cr.modify(RNGEN::CLEAR); return
HiDoneRngenClear ==
    /\ pc = "hi_done_rngen_clear"
    /\ cr' = ModifyClear(cr, "RNGEN")
    /\ pc' = "ret"
    /\ UNCHANGED <<sr, client, pending, hist, hw, cb, run>>
    /\ UNCHANGED <<clk, errs>>

\* The running operation returns to its caller.
Return ==
    /\ pc = "ret"
    /\ pc' = "idle"
    /\ lastCtl' = IF op = "set_client" THEN lastCtl ELSE op
    /\ op' = "none"
    /\ entry' = NoEntry
    /\ hw' = {}
    /\ branch' = "none"
    /\ called' = <<>>
    /\ cfg' = 0
    /\ pulls' = 0
    /\ ready' = 0
    /\ words' = 0
    /\ lastNone' = FALSE
    /\ res' = "none"
    /\ rv' = "none"
    /\ UNCHANGED <<regs, client, pending, lastSet, prevSet>>
    /\ UNCHANGED <<clk, errs>>

Next ==
    \/ HwSeedError
    \/ HwClockError
    \/ HwDataReady
    \/ HwIrq
    \/ Get
    \/ GetRngenSet
    \/ Cancel
    \/ CancelIeClear
    \/ \E c \in Clients : SetClient(c)
    \/ HandleInterrupt
    \/ HiSeisClear
    \/ HiDataRead
    \/ HiRngenClear
    \/ HiRngenSet
    \/ HiCeisTest
    \/ HiConfigure
    \/ HiCeisClear
    \/ HiMap
    \/ ClientPull
    \/ \E r \in {"More", "Done"} : ClientReturn(r)
    \/ HiIeClear
    \/ HiDoneRngenClear
    \/ Return

Spec == Init /\ [][Next]_vars

\* ------------------------------------------------ clock handle operations
\* handle.is_enabled()
CallIsEnabled(c) ==
    /\ gate' = [op |-> "is_enabled", id |-> c, ret |-> is_enabled(c, rcc),
                same |-> TRUE]
    /\ UNCHANGED <<trng, errs, rcc, handles, gf>>

\* handle.enable()
CallEnable(c) ==
    /\ rcc' = enable(c, RccState(rcc))
    /\ gate' = [op |-> "enable", id |-> c, ret |-> FALSE,
                same |-> (RccState(rcc') = RccState(rcc))]
    /\ UNCHANGED <<trng, errs, handles, gf>>

\* handle.disable()
CallDisable(c) ==
    /\ rcc' = disable(c, RccState(rcc))
    /\ gate' = [op |-> "disable", id |-> c, ret |-> FALSE,
                same |-> (RccState(rcc') = RccState(rcc))]
    /\ UNCHANGED <<trng, errs, handles, gf>>

\* handle.configure()
CallConfigure(c) ==
    /\ rcc' = configure(c, RccState(rcc))
    /\ gate' = [op |-> "configure", id |-> c, ret |-> FALSE,
                same |-> (RccState(rcc') = RccState(rcc))]
    /\ UNCHANGED <<trng, errs, handles, gf>>

\* Two handles of the registries are in use, on a backend in which any of
\* their lines may already be enabled.
InitGate ==
    /\ TrngInit
    /\ handles \in {{a, b} : a, b \in PeripheralClockType}
    /\ \E e \in SUBSET {IsEnabledLine(c) : c \in handles} :
           rcc = [RccReset EXCEPT !.en = e]
    /\ gate = GateIdle
    /\ gf = GfIdle
    /\ errs = 0

NextGate ==
    \/ \E c \in handles : CallIsEnabled(c)
    \/ \E c \in handles : CallEnable(c)
    \/ \E c \in handles : CallDisable(c)
    \/ \E c \in handles : CallConfigure(c)

SpecGate == InitGate /\ [][NextGate]_vars

\* ------------------------------------------------------------ frequency
\* The backend is reconfigured: while no get_frequency call runs, or at
\* most MaxReconf times between the reads of a running call.
Reconfigure(r) ==
    /\ r # rcc
    /\ \/ gf.pc = "idle"
       \/ gf.pc \in {"match", "tim"} /\ gf.nre < MaxReconf
    /\ rcc' = r
    /\ gf' = IF gf.pc = "idle" THEN gf
             ELSE [gf EXCEPT !.nre = @ + 1, !.ok = @ \cup RuleAt(gf.id, r)]
    /\ UNCHANGED <<trng, errs, handles, gate>>

\* The system clock changes.
RccSetSys(f) == Reconfigure([rcc EXCEPT !.sys = f])
\* The APB1 prescaler is set.
RccSetApb1(p) == Reconfigure([rcc EXCEPT !.apb1 = p])
\* The APB2 prescaler is set.
RccSetApb2(p) == Reconfigure([rcc EXCEPT !.apb2 = p])
\* The timer-prescaler-doubling flag (TIMPRE) is set or cleared.
RccSetTimPre(b) == Reconfigure([rcc EXCEPT !.timpre = b])

\* get_frequency, entry: let hclk_freq = self.rcc.get_sys_clock_frequency()
GfCall(c) ==
    /\ gf.pc = "idle"
    /\ gf' = [pc |-> "match", id |-> c, hclk |-> rcc.sys, presc |-> "DivideBy1",
              result |-> 0, nre |-> 0, ok |-> RuleAt(c, rcc)]
    /\ UNCHANGED <<trng, errs, rcc, handles, gate>>

\* get_frequency: match self.clock, with the arm's read of the prescaler
GfMatch ==
    /\ gf.pc = "match"
    /\ LET m == MatchClock(gf.id, gf.hclk, rcc) IN
        gf' = [gf EXCEPT !.pc = m.pc, !.presc = m.presc, !.result = m.result]
    /\ UNCHANGED <<trng, errs, rcc, handles, gate>>

\* get_frequency: tim_freq(self.rcc, hclk_freq, prescaler), which reads TIMPRE
GfTim ==
    /\ gf.pc = "tim"
    /\ gf' = [gf EXCEPT !.pc = "done",
                        !.result = tim_freq(rcc.timpre, gf.hclk, gf.presc)]
    /\ UNCHANGED <<trng, errs, rcc, handles, gate>>

\* get_frequency has returned its value to the caller.
GfReturn ==
    /\ gf.pc = "done"
    /\ gf' = GfIdle
    /\ UNCHANGED <<trng, errs, rcc, handles, gate>>

NextFreq ==
    \/ \E f \in SysFreqs : RccSetSys(f)
    \/ \E p \in APBPrescaler : RccSetApb1(p)
    \/ \E p \in APBPrescaler : RccSetApb2(p)
    \/ \E b \in BOOLEAN : RccSetTimPre(b)
    \/ \E c \in PeripheralClockType : GfCall(c)
    \/ GfMatch
    \/ GfTim
    \/ GfReturn

SpecFreq == Init /\ [][NextFreq]_vars

\* ------------------------------------------------------------- liveness
\* The driver in use by one client, with finitely many hardware errors:
\* set_client and get are called at will and cancel is not; the client
\* pulls on the sequence and returns Done once it has received a word, More
\* after a pull that returned None.
HwErrorCounted(b) ==
    /\ errs < MaxErrors
    /\ HwMay
    /\ sr[b] = 0
    /\ sr' = [sr EXCEPT ![b] = 1]
    /\ HwNote({b})
    /\ errs' = errs + 1
    /\ UNCHANGED <<cr, client, pending, pc, hist, cb, run, clk>>

ClientDone ==
    /\ words > 0
    /\ ClientReturn("Done")

ClientMore ==
    /\ words = 0
    /\ lastNone
    /\ ClientReturn("More")

\* The steps of the interrupt handler and of the client it calls.
HandlerStep ==
    \/ HiSeisClear
    \/ HiDataRead
    \/ HiRngenClear
    \/ HiRngenSet
    \/ HiCeisTest
    \/ HiConfigure
    \/ HiCeisClear
    \/ HiMap
    \/ ClientPull
    \/ ClientDone
    \/ ClientMore
    \/ HiIeClear
    \/ HiDoneRngenClear

NextLive ==
    \/ \E b \in {"SEIS", "CEIS"} : HwErrorCounted(b)
    \/ HwDataReady
    \/ HwIrq
    \/ \E c \in Clients : SetClient(c)
    \/ Get
    \/ GetRngenSet
    \/ HandleInterrupt
    \/ HandlerStep
    \/ Return

\* Code that runs keeps running to its return; the generator, while
\* enabled, produces a word; a raised interrupt line is latched; a pending
\* interrupt is served before further calls are made.
Fairness ==
    /\ WF_vars(GetRngenSet)
    /\ WF_vars(HandlerStep)
    /\ WF_vars(Return)
    /\ SF_vars(HwDataReady)
    /\ SF_vars(HwIrq)
    /\ SF_vars(HandleInterrupt)

SpecLive == Init /\ [][NextLive]_vars /\ Fairness

TypeOK ==
    /\ cr \in Control
    /\ sr \in Status
    /\ client \in Clients \cup {NoClient}
    /\ pending \in BOOLEAN
    /\ hw \subseteq StatusBits
    /\ pulls \in 0 .. MaxPulls
    /\ words \in 0 .. pulls
\* ------------------------------------------------------------ properties
\* The running operation is at the instant of its return.
Returning(o) == pc = "ret" /\ op = o
\* Status bits that no hardware event touched since the operation started.
Quiet == StatusBits \ hw
Armed(c) == c.IE = 1 /\ c.RNGEN = 1
Disabled(c) == c.IE = 0 /\ c.RNGEN = 0

\* C1: a handler invocation that runs after cancel() completed (no get() in
\* between) returns with interrupt-enable and generator-enable both clear,
\* whatever the seed-error, clock-error and data-ready flags are.
C1_HandlerAfterCancelNoOp ==
    (Returning("handle_interrupt") /\ lastCtl = "cancel") => Disabled(cr)

\* C2: a handler invocation that finds SEIS set clears SEIS, reads the data
\* register (DRDY falls), clears RNGEN and then sets it, invokes no client
\* and leaves IE (and CED) as they were.
C2_SeedError ==
    (op = "handle_interrupt" /\ entry.sr.SEIS = 1) =>
        /\ called = <<>>
        /\ cfg = 0
        /\ cr.IE = entry.cr.IE
        /\ cr.CED = entry.cr.CED
        /\ pc = "hi_rngen_set" => cr.RNGEN = 0
        /\ pc = "ret" =>
            /\ cr.RNGEN = 1
            /\ "SEIS" \in Quiet => sr.SEIS = 0
            /\ "DRDY" \in Quiet => sr.DRDY = 0

C2_Witness ==
    /\ Returning("handle_interrupt")
    /\ entry.sr.SEIS = 1
    /\ entry.sr.DRDY = 1
    /\ entry.cr.RNGEN = 1
    /\ client # NoClient
    /\ hw = {}

\* C3: a handler invocation that finds SEIS clear and CEIS set calls
\* clock.configure() exactly once, clears CEIS, leaves the control register
\* as it was and invokes no client.
C3_ClockError ==
    (Returning("handle_interrupt") /\ entry.sr.SEIS = 0 /\ entry.sr.CEIS = 1) =>
        /\ cfg = 1
        /\ "CEIS" \in Quiet => sr.CEIS = 0
        /\ cr = entry.cr
        /\ called = <<>>

C3_Witness ==
    /\ Returning("handle_interrupt")
    /\ entry.sr.SEIS = 0
    /\ entry.sr.CEIS = 1
    /\ entry.sr.DRDY = 1
    /\ Armed(entry.cr)
    /\ client # NoClient
    /\ hw = {}

\* C4: one handler invocation acts on one condition only, seed error before
\* clock error before delivery: with SEIS and CEIS both set only the seed
\* recovery runs (CEIS stays set, no configure()); configure() is called
\* only when SEIS was clear on entry; a client is invoked only when SEIS and
\* CEIS were both clear on entry, and then configure() is not called.
C4_OneCondition ==
    op = "handle_interrupt" =>
        /\ (entry.sr.SEIS = 1 /\ entry.sr.CEIS = 1) =>
               (sr.CEIS = 1 /\ cfg = 0 /\ called = <<>>)
        /\ cfg > 0 => (entry.sr.SEIS = 0 /\ called = <<>> /\ cr = entry.cr)
        /\ called # <<>> =>
               (entry.sr.SEIS = 0 /\ entry.sr.CEIS = 0 /\ cfg = 0)

C4_Witness ==
    /\ Returning("handle_interrupt")
    /\ entry.sr.SEIS = 1
    /\ entry.sr.CEIS = 1
    /\ client # NoClient

\* C5: when the registered client returns Done, the handler returns with
\* interrupt-enable and generator-enable both clear, whatever number of
\* words the client pulled.
C5_Done ==
    (Returning("handle_interrupt") /\ res = "Done") =>
        (called # <<>> /\ Disabled(cr) /\ cr.CED = entry.cr.CED)

C5_Witness ==
    /\ Returning("handle_interrupt")
    /\ res = "Done"
    /\ Armed(entry.cr)
    /\ words = MaxPulls

\* C6: when the registered client pulls until the sequence yields None and
\* returns More, it has received one word per pull at which DRDY was set
\* (none if DRDY was never set), and the control register is as on entry.
C6_Continue ==
    (Returning("handle_interrupt") /\ res = "More" /\ lastNone) =>
        /\ words = ready
        /\ pulls > ready
        /\ cr = entry.cr

C6_Witness ==
    /\ Returning("handle_interrupt")
    /\ res = "More"
    /\ lastNone
    /\ words = 1
    /\ Armed(entry.cr)

\* C7: a pull yields a word exactly when DRDY is set at that pull, and the
\* yield clears DRDY; with no ready pulse from the hardware during the
\* handler, the client gets at most the one word that was ready on entry
\* and the pull after it returns None.
C7_Pull ==
    op = "handle_interrupt" =>
        /\ words = ready
        /\ "DRDY" \in Quiet =>
            /\ words <= entry.sr.DRDY
            /\ pulls > 0 => sr.DRDY = 0
            /\ pulls > entry.sr.DRDY => lastNone

C7_Witness ==
    /\ pc = "client"
    /\ pulls = 2
    /\ words = 1
    /\ lastNone
    /\ "DRDY" \in Quiet

\* C8: get() returns Ok with interrupt-enable and generator-enable set; it
\* changes no other control bit and no status flag, and called while armed
\* it leaves the control register as it was.
C8_Get ==
    op = "get" =>
        /\ cr.CED = entry.cr.CED
        /\ cr.IE = 1
        /\ \A b \in Quiet : sr[b] = entry.sr[b]
        /\ Armed(entry.cr) => cr = entry.cr
        /\ pc = "ret" => (Armed(cr) /\ rv = "Ok")

C8_Witness ==
    /\ Returning("get")
    /\ Armed(entry.cr)
    /\ entry.cr.CED = 1
    /\ entry.sr.DRDY = 1

\* C9: cancel() clears generator-enable first and interrupt-enable second
\* and returns Ok: between the two writes RNGEN is clear and IE is as on
\* entry (never IE clear with RNGEN set), on return both are clear, and
\* called in the Disabled state it leaves the control register as it was.
C9_Cancel ==
    op = "cancel" =>
        /\ cr.CED = entry.cr.CED
        /\ cr.RNGEN = 0
        /\ \A b \in Quiet : sr[b] = entry.sr[b]
        /\ pc = "cancel_ie" => cr.IE = entry.cr.IE
        /\ Disabled(entry.cr) => cr = entry.cr
        /\ pc = "ret" => (Disabled(cr) /\ rv = "Ok")

C9_Witness ==
    /\ op = "cancel"
    /\ pc = "cancel_ie"
    /\ Armed(entry.cr)
    /\ cr.IE = 1

\* C10: the driver holds the client most recently passed to set_client and
\* no other; a delivery-branch handler invocation invokes that client once
\* and never a client that was replaced.
C10_OneClient ==
    /\ client = lastSet
    /\ Len(called) <= 1
    /\ \A i \in 1 .. Len(called) : called[i] = lastSet
    /\ (Returning("handle_interrupt") /\ branch = "deliver"
            /\ lastSet # NoClient) => called = <<lastSet>>

C10_Witness ==
    /\ Returning("handle_interrupt")
    /\ called = <<lastSet>>
    /\ prevSet # NoClient
    /\ prevSet # lastSet

\* The running get_frequency call returns, and the backend was not
\* reconfigured during it.
Returned == gf.pc = "done" /\ gf.nre = 0
Tim2Clock == [bus |-> "APB1", p |-> "TIM2"]

\* C11: for every clock identity, after any sequence of enable / disable
\* calls: after enable() the handle's is_enabled() is true and a further
\* enable() changes nothing; after disable() its is_enabled() is false;
\* is_enabled() changes no state.
C11_EnableDisable ==
    /\ gate.op = "enable" =>
        /\ is_enabled(gate.id, rcc)
        /\ RccState(enable(gate.id, rcc)) = RccState(rcc)
    /\ gate.op = "disable" => ~is_enabled(gate.id, rcc)
    /\ gate.op = "is_enabled" =>
        (gate.same /\ gate.ret = (IsEnabledLine(gate.id) \in rcc.en))

C11_Witness ==
    /\ gate.op = "enable"
    /\ gate.same
    /\ gate.id.bus = "RTC"
    /\ Cardinality(rcc.en) = 2

\* C12: TIMPRE clear, Timer-2 handle: with APB1 prescaler 1 or 2 the
\* frequency is the undivided bus (system) frequency, with 4 and larger
\* it is 2 times the integer quotient system frequency / prescaler.
C12_TimFlagClear ==
    (Returned /\ gf.id = Tim2Clock /\ ~rcc.timpre) =>
        gf.result = IF rcc.apb1 \in {"DivideBy1", "DivideBy2"}
                    THEN rcc.sys
                    ELSE 2 * (rcc.sys \div PrescalerValue(rcc.apb1))

C12_Witness ==
    /\ Returned
    /\ gf.id = Tim2Clock
    /\ ~rcc.timpre
    /\ rcc.apb1 = "DivideBy4"
    /\ rcc.sys = 15
    /\ gf.result = 6

\* C13: TIMPRE set, Timer-2 handle: with APB1 prescaler 1, 2 or 4 the
\* frequency is the undivided system frequency, with 8 and larger it is
\* 4 times the integer quotient system frequency / prescaler.
C13_TimFlagSet ==
    (Returned /\ gf.id = Tim2Clock /\ rcc.timpre) =>
        gf.result = IF rcc.apb1 \in {"DivideBy1", "DivideBy2", "DivideBy4"}
                    THEN rcc.sys
                    ELSE 4 * (rcc.sys \div PrescalerValue(rcc.apb1))

C13_Witness ==
    /\ Returned
    /\ gf.id = Tim2Clock
    /\ rcc.timpre
    /\ rcc.apb1 = "DivideBy8"
    /\ rcc.sys = 168000000
    /\ gf.result = 84000000

\* C14: every APB peripheral other than Timer-2 gets the integer quotient
\* of the system frequency by its own bus's prescaler, whatever the other
\* bus's prescaler and TIMPRE are.
C14_ApbDivided ==
    Returned =>
        /\ (gf.id.bus = "APB1" /\ gf.id # Tim2Clock) =>
               gf.result = rcc.sys \div PrescalerValue(rcc.apb1)
        /\ gf.id.bus = "APB2" =>
               gf.result = rcc.sys \div PrescalerValue(rcc.apb2)

C14_Witness ==
    /\ Returned
    /\ gf.id.bus = "APB2"
    /\ rcc.apb2 = "DivideBy16"
    /\ rcc.apb1 = "DivideBy2"
    /\ rcc.timpre
    /\ rcc.sys = 15
    /\ gf.result = 0

\* C15: every peripheral of the three AHB families gets the system clock
\* frequency, whatever the APB prescalers and TIMPRE are.
C15_AhbUndivided ==
    (Returned /\ gf.id.bus \in {"AHB1", "AHB2", "AHB3"}) => gf.result = rcc.sys

C15_Witness ==
    /\ Returned
    /\ gf.id.bus = "AHB3"
    /\ rcc.apb1 = "DivideBy4"
    /\ rcc.apb2 = "DivideBy8"
    /\ rcc.timpre
    /\ gf.result = 168000000

\* C16: get_frequency() on RTC or PWR ends in the not-implemented failure
\* and returns no value; on every other identity it does not fail.
C16_Todo ==
    /\ gf.pc = "panic" => gf.id.bus \in {"RTC", "PWR"}
    /\ gf.pc \in {"tim", "done"} => gf.id.bus \notin {"RTC", "PWR"}

C16_Witness ==
    /\ gf.pc = "panic"
    /\ gf.id.bus = "PWR"

\* C17: configure() leaves the backend as it was for every clock identity
\* but the RNG clock, for which it calls the backend's RNG reconfiguration
\* hook exactly once.
C17_Configure ==
    gate.op = "configure" =>
        /\ gate.same
        /\ rcc.rngcalls = IF gate.id = TrngClock THEN 1 ELSE 0

C17_Witness ==
    /\ gate.op = "configure"
    /\ gate.id = TrngClock
    /\ rcc.rngcalls = 1
    /\ rcc.en # {}

\* C18: the value one get_frequency() call returns is the frequency rule
\* applied to one of the backend states the call ran through, also when
\* the backend is reconfigured between the call's reads.
C18_SingleState ==
    gf.pc = "done" => gf.result \in gf.ok

\* C19: between operations interrupt-enable and generator-enable are both
\* clear (Disabled) or both set (Armed).
C19_TwoStates ==
    pc = "idle" => (Disabled(cr) \/ Armed(cr))

\* get() has returned with a client registered.
GotCalled == pc = "idle" /\ lastCtl = "get" /\ client # NoClient
\* The handler returns after the client took a word and answered Done.
Delivered == Returning("handle_interrupt") /\ res = "Done" /\ words > 0
ErrorFlagUp == sr.SEIS = 1 \/ sr.CEIS = 1

C21_NoClient ==
    (Returning("handle_interrupt") /\ client = NoClient) =>
        /\ (entry.sr.SEIS = 0 /\ entry.sr.CEIS = 0
                /\ {"SEIS", "CEIS"} \subseteq Quiet) => branch = "deliver"
        /\ branch = "deliver" =>
            /\ pulls = 0
            /\ words = 0
            /\ called = <<>>
            /\ cfg = 0
            /\ res = "none"
            /\ cr = entry.cr
            /\ \A b \in Quiet : sr[b] = entry.sr[b]

C21_Witness ==
    /\ Returning("handle_interrupt")
    /\ client = NoClient
    /\ branch = "deliver"
    /\ Armed(entry.cr)
    /\ entry.sr.DRDY = 1
    /\ sr.DRDY = 1
    /\ Armed(cr)

====
